---- MODULE Spec2Model ----
(***************************************************************************)
(* Outbound framing of the Triple protocol: the lazy frame sequence built  *)
(* by encode() and the body EncodeBody that exposes it (poll_data,         *)
(* poll_trailers, is_end_stream), triple/src/server/encode.rs.             *)
(*                                                                         *)
(* A "pull" is a poll that completes: a poll that finds the input not      *)
(* ready returns Pending through ready!() and changes nothing.             *)
(***************************************************************************)
EXTENDS Integers, Sequences, FiniteSets, TLC

\* Longest input sequence handed to encode_server / encode_client.
MaxLen == 3

\* Most poll_data calls the consumer makes on one body.
MaxPulls == 5

\* Longest sequence of accept results the listener hands to the server.
MaxAccepts == 4

\* super::consts::HEADER_SIZE: 1 flag byte + 4 length bytes.
HEADER_SIZE == 5

\* Option<T>: None is the empty sequence, Some(x) the one-element sequence.
None == <<>>

Some(x) == <<x>>

\* A byte of a buffer region that advance_mut exposed without writing it.
Uninit == -1

---------------------------------------------------------------------------
\* tonic::Status values that flow through the body.

StatusOk == [code |-> 0, message |-> ""]

StatusBoom == [code |-> 13, message |-> "boom"]

StatusDown == [code |-> 14, message |-> "down"]

UpstreamStatuses == {StatusBoom, StatusDown}

\* Application messages, given by the bytes their serialization has.
Messages == {<<120>>, <<98, 98>>}

\* What a capability does on a message: "none" both succeed, "encode" the
\* Encoder fails on it, "compress" the Compressor fails on it.
Faults == {"none", "encode", "compress"}

OkItems == [tag : {"Ok"}, msg : Messages, fault : Faults]

ErrItems == [tag : {"Err"}, status : UpstreamStatuses]

Items == OkItems \cup ErrItems

SeqsUpTo(S, n) == UNION {[1..k -> S] : k \in 0..n}

---------------------------------------------------------------------------
\* The capabilities encode() calls.

\* Encoder::encode(item, dst): the bytes it appends to dst.  A failing
\* Encoder stops before the last byte of the serialization.
EncoderWrites(item) ==
    IF item.fault = "encode"
    THEN SubSeq(item.msg, 1, Len(item.msg) - 1)
    ELSE item.msg

EncoderOk(item) == item.fault # "encode"

\* The gzip member of a source: magic, the data, the size modulo 256.
Gzip(src) == <<31, 139>> \o src \o <<Len(src) % 256>>

\* compress(encoding, src, dst, len): the bytes it appends to dst.  A
\* failing Compressor stops after the magic.
CompressWrites(item, src) ==
    IF item.fault = "compress" THEN <<31, 139>> ELSE Gzip(src)

CompressOk(item) == item.fault # "compress"

\* compress consumes the source (advance(len)) only when it succeeds.
CompressLeaves(item, src, len) ==
    IF CompressOk(item) THEN SubSeq(src, len + 1, Len(src)) ELSE src

---------------------------------------------------------------------------
\* Buffer primitives of encode().

\* buf.reserve(HEADER_SIZE); buf.advance_mut(HEADER_SIZE)
ReserveHeader(b) == b \o [i \in 1..HEADER_SIZE |-> Uninit]

\* put_u32(len as u32): the low 32 bits of len, big-endian (the % 256 of
\* the first byte is the truncation of the cast).
BE32(n) ==
    << (n \div 16777216) % 256, (n \div 65536) % 256, (n \div 256) % 256, n % 256 >>

\* enable_compress as u8
AsU8(flag) == IF flag THEN 1 ELSE 0

\* The header written over buf[..HEADER_SIZE].
Header(enable_compress, len) == <<AsU8(enable_compress)>> \o BE32(len)

\* Writing h over the first Len(h) bytes of b.
Backfill(b, h) == [i \in 1..Len(b) |-> IF i <= Len(h) THEN h[i] ELSE b[i]]

\* let len = buf.len() - HEADER_SIZE
PayloadLen(b) == Len(b) - HEADER_SIZE

\* buf.split_to(n): the bytes split off, and what stays in buf.
SplitOff(b, n) == SubSeq(b, 1, n)

\* A split that copies the frame out and leaves it in the buffer.
SplitRestKeepsFrame(b, n) == b

SplitRest(b, n) == SubSeq(b, n + 1, Len(b))

\* The match on compression_encoding.
EnableCompress(enc) == enc # None

\* A scratch buffer that is not cleared between messages.
ClearSkipped(u) == u

\* uncompression_buf.clear()
Clear(u) == <<>>

\* One Some(Ok(item)) turn of the loop of encode(): the frame yielded and the
\* buffers left behind.  The results of encode and compress are dropped
\* (map_err builds a Status that nothing reads).
AssembleFrame(item, b, u, enc) ==
    LET b1 == ReserveHeader(b)
        u1 == IF EnableCompress(enc) THEN Clear(u) \o EncoderWrites(item) ELSE u
        ulen == Len(u1)
        b2 == IF EnableCompress(enc)
              THEN b1 \o CompressWrites(item, SubSeq(u1, 1, ulen))
              ELSE b1 \o EncoderWrites(item)
        u2 == IF EnableCompress(enc) THEN CompressLeaves(item, u1, ulen) ELSE u1
        len == PayloadLen(b2)
        b3 == Backfill(b2, Header(EnableCompress(enc), len))
    IN  [frame |-> SplitOff(b3, len + HEADER_SIZE),
         buf |-> SplitRest(b3, len + HEADER_SIZE),
         ubuf |-> u2]

\* Whether a capability failed on the item in this turn.
CapabilityFailed(item, enc) ==
    IF EnableCompress(enc)
    THEN ~EncoderOk(item) \/ ~CompressOk(item)
    ELSE ~EncoderOk(item)

---------------------------------------------------------------------------
\* State.

VARIABLES
    resp_body,              \* encode(): what the input stream has yet to yield
    buf,                    \* encode(): the working buffer
    uncompression_buf,      \* encode(): the scratch buffer of the compress path
    done,                   \* the stream of encode() has run past its loop
    compression_encoding,   \* encode(): Option<CompressionEncoding>
    role,                   \* EncodeBody.role
    is_end_stream,          \* EncodeBody.is_end_stream
    error,                  \* EncodeBody.error: Option<Status>
    ret,                    \* what the last call on the body returned
    input,                  \* history: the input sequence given at construction
    frames,                 \* history: the frames poll_data has returned
    ended,                  \* history: poll_data has returned None
    lastFailed,             \* history: the status of the last poll_data that failed
    sent,                   \* history: the non-ok statuses trailers have carried
    failures,               \* history: failures that occurred inside the stream
    pulls,                  \* history: poll_data calls made
    encodes,                \* history: Encoder calls made
    stored,                 \* history: times poll_data stored a status in error
    taken,                  \* history: times poll_trailers took a stored status
    twin,                   \* a body of the other role over the same frame
                            \* sequence, given the same calls
    incoming,               \* JsonRpcServer.incoming: accept results to come
    accepts,                \* history: the accept results given at construction
    spawned,                \* connection tasks spawned on rt_handle
    output                  \* Option of the Output the server future completed with

vars == << resp_body, buf, uncompression_buf, done, compression_encoding, role,
           is_end_stream, error, ret, input, frames, ended, lastFailed, sent,
           failures, pulls, encodes, stored, taken, twin,
           incoming, accepts, spawned, output >>

serverVars == << incoming, accepts, spawned, output >>

encodeVars == << resp_body, buf, uncompression_buf, done >>

bodyVars == << is_end_stream, error >>

histVars == << frames, ended, lastFailed, sent, failures, pulls, encodes,
              stored, taken >>

constVars == << compression_encoding, role, input >>

Encodings == {None, Some("Gzip")}

IsOk(item) == item.tag = "Ok"

NoErr(s) == \A i \in 1..Len(s) : IsOk(s[i])

\* An input stream that loses the item after the one it yields.
AdvanceSkipsOne(rb) == IF Len(rb) > 1 THEN Tail(Tail(rb)) ELSE Tail(rb)

\* resp_body.next(): the stream after it has yielded its head.
Advance(rb) == Tail(rb)

\* enum Role
Roles == {"Server", "Client"}

OtherRole(r) == IF r = "Server" THEN "Client" ELSE "Server"

\* No JSON-RPC server is part of the exchange.
NoServer ==
    /\ incoming = <<>>
    /\ accepts = <<>>
    /\ spawned = <<>>
    /\ output = None

\* EncodeBody::new_server / new_client over encode(encoder, body, enc).
NewBody(r, body, enc) ==
    /\ resp_body = body
    /\ buf = <<>>
    /\ uncompression_buf = <<>>
    /\ done = FALSE
    /\ compression_encoding = enc
    /\ role = r
    /\ is_end_stream = FALSE
    /\ error = None
    /\ ret = [op |-> "new", val |-> None]
    /\ input = body
    /\ frames = <<>>
    /\ ended = FALSE
    /\ lastFailed = None
    /\ sent = <<>>
    /\ failures = 0
    /\ pulls = 0
    /\ encodes = 0
    /\ stored = 0
    /\ taken = 0
    /\ twin = [role |-> OtherRole(r), resp_body |-> body, buf |-> <<>>,
               uncompression_buf |-> <<>>, done |-> FALSE,
               is_end_stream |-> FALSE, error |-> None,
               ret |-> [op |-> "new", val |-> None]]
    /\ NoServer

\* encode_server: the body is a stream of Result<Item, Status>.
encode_server ==
    \E body \in SeqsUpTo(Items, MaxLen), enc \in Encodings :
        NewBody("Server", body, enc)

\* encode_client: the body is a stream of items, each wrapped by map(Ok).
encode_client ==
    \E body \in SeqsUpTo(OkItems, MaxLen), enc \in Encodings :
        NewBody("Client", body, enc)

Init == encode_server \/ encode_client

---------------------------------------------------------------------------
\* poll_data

\* A failure that is not stored.
RecordErrorDropped(status) == None

\* A failure replaced by a status of the body's own making.
RecordErrorAsInternal(status) == Some([code |-> 13, message |-> "upstream error"])

\* *self_proj.error = Some(status)
RecordError(status) == Some(status)

\* poll_data on a body given as a record of its fields: the body after the
\* call, with what the call returned in ret.
BodyPollData(b, enc) ==
    IF b.done \/ b.resp_body = <<>>
    THEN [b EXCEPT !.done = TRUE, !.ret = [op |-> "poll_data", val |-> None]]
    ELSE IF IsOk(Head(b.resp_body))
    THEN LET r == AssembleFrame(Head(b.resp_body), b.buf, b.uncompression_buf, enc)
         IN  [b EXCEPT !.resp_body = Advance(@),
                       !.buf = r.buf,
                       !.uncompression_buf = r.ubuf,
                       !.ret = [op |-> "poll_data", val |-> Some(r.frame)]]
    ELSE [b EXCEPT !.resp_body = Advance(@),
                   !.error = RecordError(Head(b.resp_body).status),
                   !.ret = [op |-> "poll_data", val |-> None]]

\* Some(Ok(d)) => Some(Ok(d)): the inner stream yielded a frame.
PollDataFrame ==
    /\ pulls < MaxPulls
    /\ ~done
    /\ resp_body # <<>>
    /\ IsOk(Head(resp_body))
    /\ LET item == Head(resp_body)
           r == AssembleFrame(item, buf, uncompression_buf, compression_encoding)
       IN  /\ resp_body' = Advance(resp_body)
           /\ buf' = r.buf
           /\ uncompression_buf' = r.ubuf
           /\ ret' = [op |-> "poll_data", val |-> Some(r.frame)]
           /\ frames' = Append(frames, r.frame)
           /\ failures' = IF CapabilityFailed(item, compression_encoding)
                          THEN failures + 1 ELSE failures
    /\ pulls' = pulls + 1
    /\ encodes' = encodes + 1
    /\ twin' = BodyPollData(twin, compression_encoding)
    /\ UNCHANGED << done, bodyVars, constVars, ended, lastFailed, sent, stored,
                    taken, serverVars >>

\* Some(Err(status)): the stream yielded the upstream failure; the body
\* stores it and returns None.  The loop of encode() goes on after the yield.
PollDataErr ==
    /\ pulls < MaxPulls
    /\ ~done
    /\ resp_body # <<>>
    /\ ~IsOk(Head(resp_body))
    /\ LET status == Head(resp_body).status
       IN  /\ resp_body' = Advance(resp_body)
           /\ error' = RecordError(status)
           /\ lastFailed' = Some(status)
    /\ ret' = [op |-> "poll_data", val |-> None]
    /\ ended' = TRUE
    /\ failures' = failures + 1
    /\ pulls' = pulls + 1
    /\ stored' = stored + 1
    /\ twin' = BodyPollData(twin, compression_encoding)
    /\ UNCHANGED << buf, uncompression_buf, done, is_end_stream, constVars,
                    frames, sent, encodes, taken, serverVars >>

\* An end of data that also declares the end of the stream.
PollDataNoneEndsStream ==
    /\ pulls < MaxPulls
    /\ done \/ resp_body = <<>>
    /\ done' = TRUE
    /\ ret' = [op |-> "poll_data", val |-> None]
    /\ ended' = TRUE
    /\ is_end_stream' = TRUE
    /\ pulls' = pulls + 1
    /\ twin' = BodyPollData(twin, compression_encoding)
    /\ UNCHANGED << resp_body, buf, uncompression_buf, error, constVars,
                    frames, lastFailed, sent, failures, encodes, stored, taken,
                    serverVars >>

\* A stream that yields a frame of nothing once its input is exhausted.
PollDataNoneYieldsEmpty ==
    /\ pulls < MaxPulls
    /\ done \/ resp_body = <<>>
    /\ done' = TRUE
    /\ ret' = [op |-> "poll_data", val |-> Some(<<0, 0, 0, 0, 0>>)]
    /\ frames' = Append(frames, <<0, 0, 0, 0, 0>>)
    /\ pulls' = pulls + 1
    /\ twin' = BodyPollData(twin, compression_encoding)
    /\ UNCHANGED << resp_body, buf, uncompression_buf, bodyVars, constVars,
                    ended, lastFailed, sent, failures, encodes, stored, taken,
                    serverVars >>

\* None: the input is exhausted (the loop breaks), or the stream had ended.
PollDataNone ==
    /\ pulls < MaxPulls
    /\ done \/ resp_body = <<>>
    /\ done' = TRUE
    /\ ret' = [op |-> "poll_data", val |-> None]
    /\ ended' = TRUE
    /\ pulls' = pulls + 1
    /\ twin' = BodyPollData(twin, compression_encoding)
    /\ UNCHANGED << resp_body, buf, uncompression_buf, bodyVars, constVars,
                    frames, lastFailed, sent, failures, encodes, stored, taken,
                    serverVars >>

poll_data == PollDataFrame \/ PollDataErr \/ PollDataNone

---------------------------------------------------------------------------
\* poll_trailers

\* Trailers that ignore the stored status.
TrailerStatusAlwaysOk(err) == StatusOk

\* The status the trailers are built from.
TrailerStatus(err) == IF err # None THEN err[1] ELSE StatusOk

\* The flag set by every poll_trailers that returns trailers.
EndStreamAfterAnyTrailers(err, flag) == TRUE

\* *self_proj.is_end_stream = true, only where a stored status was taken.
EndStreamAfter(err, flag) == IF err # None THEN TRUE ELSE flag

\* self_proj.error.take() leaves None.
Take(err) == None

\* status.to_http().headers(): the trailer record of a status.
ToHttpHeaders(status) ==
    [content_type |-> "application/grpc",
     grpc_status |-> status.code,
     grpc_message |-> status.message]

\* Trailers as a body would give them if the Client role returned none.
BodyPollTrailersByRole(b) ==
    IF b.is_end_stream \/ b.role = "Client"
    THEN [b EXCEPT !.ret = [op |-> "poll_trailers", val |-> None]]
    ELSE [b EXCEPT !.ret = [op |-> "poll_trailers",
                           val |-> Some(ToHttpHeaders(TrailerStatus(b.error)))],
                   !.is_end_stream = EndStreamAfter(b.error, @),
                   !.error = Take(@)]

\* poll_trailers on a body given as a record of its fields.
BodyPollTrailers(b) ==
    IF b.is_end_stream
    THEN [b EXCEPT !.ret = [op |-> "poll_trailers", val |-> None]]
    ELSE [b EXCEPT !.ret = [op |-> "poll_trailers",
                           val |-> Some(ToHttpHeaders(TrailerStatus(b.error)))],
                   !.is_end_stream = EndStreamAfter(b.error, @),
                   !.error = Take(@)]

\* is_end_stream() on a body given as a record of its fields.
BodyIsEndStream(b) ==
    [b EXCEPT !.ret = [op |-> "is_end_stream", val |-> Some(b.is_end_stream)]]

\* An ended body that re-arms itself when asked for trailers again.
PollTrailersEndedResets ==
    /\ is_end_stream
    /\ ret' = [op |-> "poll_trailers", val |-> None]
    /\ is_end_stream' = FALSE
    /\ twin' = BodyPollTrailers(twin)
    /\ UNCHANGED << encodeVars, error, constVars, histVars, serverVars >>

\* An ended body that clears the pending slot when asked for trailers again.
PollTrailersEndedClears ==
    /\ is_end_stream
    /\ ret' = [op |-> "poll_trailers", val |-> None]
    /\ error' = None
    /\ twin' = BodyPollTrailers(twin)
    /\ UNCHANGED << encodeVars, is_end_stream, constVars, histVars, serverVars >>

\* if *self_proj.is_end_stream { return Poll::Ready(Ok(None)) }
PollTrailersEnded ==
    /\ is_end_stream
    /\ ret' = [op |-> "poll_trailers", val |-> None]
    /\ twin' = BodyPollTrailers(twin)
    /\ UNCHANGED << encodeVars, bodyVars, constVars, histVars, serverVars >>

PollTrailersSome ==
    /\ ~is_end_stream
    /\ LET status == TrailerStatus(error)
       IN  /\ ret' = [op |-> "poll_trailers", val |-> Some(ToHttpHeaders(status))]
           /\ sent' = IF status.code # 0 THEN Append(sent, status) ELSE sent
    /\ is_end_stream' = EndStreamAfter(error, is_end_stream)
    /\ error' = Take(error)
    /\ taken' = IF error # None THEN taken + 1 ELSE taken
    /\ twin' = BodyPollTrailers(twin)
    /\ UNCHANGED << encodeVars, constVars, frames, ended, lastFailed, failures,
                    pulls, encodes, stored, serverVars >>

poll_trailers == PollTrailersEnded \/ PollTrailersSome

---------------------------------------------------------------------------
\* is_end_stream()

is_end_stream_query ==
    /\ ret' = [op |-> "is_end_stream", val |-> Some(is_end_stream)]
    /\ twin' = BodyIsEndStream(twin)
    /\ UNCHANGED << encodeVars, bodyVars, constVars, histVars, serverVars >>

---------------------------------------------------------------------------

Next == poll_data \/ poll_trailers \/ is_end_stream_query

Spec == Init /\ [][Next]_vars

---------------------------------------------------------------------------
\* Reference definitions for the properties.

\* Input items the stream has taken so far.
Consumed == Len(input) - Len(resp_body)

\* The item the last pull took (when it took one).
LastItem == input[Consumed]

\* An input item at which the exchange fails: an upstream Err, or a message
\* on which a capability that is called fails.
FailsAt(s, i, enc) == ~IsOk(s[i]) \/ CapabilityFailed(s[i], enc)

\* Position of the first failure of an input, 0 when it has none.
FirstFailure(s, enc) ==
    IF \E i \in 1..Len(s) : FailsAt(s, i, enc)
    THEN CHOOSE i \in 1..Len(s) :
            FailsAt(s, i, enc) /\ \A j \in 1..(i - 1) : ~FailsAt(s, j, enc)
    ELSE 0

\* The payload the wire format prescribes for a message.
ExpectedPayload(item, enc) == IF enc = None THEN item.msg ELSE Gzip(item.msg)

\* The frame the wire format prescribes for a message: flag, length, payload.
ExpectedFrame(item, enc) ==
    LET p == ExpectedPayload(item, enc)
        n == Len(p)
    IN  << IF enc = None THEN 0 ELSE 1,
           (n \div (256 * 256 * 256)) % 256, (n \div (256 * 256)) % 256,
           (n \div 256) % 256, n % 256 >> \o p

\* The value of a frame's length field, read big-endian.
LengthField(f) == ((f[2] * 256 + f[3]) * 256 + f[4]) * 256 + f[5]

\* The bytes of a frame that follow its header.
PayloadOf(f) == SubSeq(f, HEADER_SIZE + 1, Len(f))

WellFormed(f) ==
    /\ Len(f) >= HEADER_SIZE
    /\ \A i \in 1..Len(f) : f[i] \in 0..255
    /\ f[1] \in {0, 1}
    /\ LengthField(f) = Len(f) - HEADER_SIZE

ReturnedFrame == ret.op = "poll_data" /\ ret.val # None

ReturnedTrailers == ret.op = "poll_trailers" /\ ret.val # None

\* Scenario B: one message, then a final upstream failure internal/"boom".
ScenarioB ==
    << [tag |-> "Ok", msg |-> <<120>>, fault |-> "none"],
       [tag |-> "Err", status |-> StatusBoom] >>

---------------------------------------------------------------------------
\* C1. Single terminal failure: when the first failure of the input is at
\* position k, poll_data returns k-1 frames in all, and once the k-th item
\* has been taken the data has ended with the failure recorded and no
\* frame is returned any more, whatever follows position k.
C1_SingleTerminalFailure ==
    LET k == FirstFailure(input, compression_encoding)
    IN  k # 0 =>
            /\ Len(frames) <= k - 1
            /\ Consumed >= k =>
                   /\ ended
                   /\ Len(frames) = k - 1
                   /\ error # None \/ sent # <<>>

\* C2. A message on which the Encoder or the Compressor fails yields no
\* frame: the pull that takes it ends the data with an internal status.
C2_CapabilityFailureIsInternal ==
    ( /\ ret.op = "poll_data"
      /\ ~done
      /\ Consumed >= 1
      /\ IsOk(LastItem)
      /\ CapabilityFailed(LastItem, compression_encoding) )
    => ( /\ ret.val = None
         /\ error # None
         /\ error[1].code = 13 )

\* C3. Trailer idempotence: after poll_data has returned None, for clean
\* exhaustion as for a failure, a poll_trailers that returns a trailer
\* record makes is_end_stream true (so that the next one returns None).
C3_TrailersExactlyOnce ==
    (ended /\ ReturnedTrailers) => is_end_stream

\* C4. A returned trailer record carries the status recorded by the most
\* recent failed poll_data when one is pending and ok otherwise, and the
\* pull that returns it leaves the pending slot empty; a failure-free input
\* only ever gets ok trailers.
C4_TrailerCarriesPendingStatus ==
    [][ (ret'.op = "poll_trailers" /\ ret'.val # None) =>
            /\ ret'.val[1] =
                  [content_type |-> "application/grpc",
                   grpc_status |-> IF error # None THEN lastFailed[1].code ELSE 0,
                   grpc_message |-> IF error # None THEN lastFailed[1].message ELSE ""]
            /\ error' = None
            /\ NoErr(input) => ret'.val[1].grpc_status = 0
      ]_vars

\* The second of two upstream failures is the one a trailer carried.
C4_Witness ==
    /\ ReturnedTrailers
    /\ ret.val[1].grpc_status = 14
    /\ ret.val[1].grpc_message = "down"
    /\ error = None
    /\ Len(input) >= 2
    /\ input[1] = [tag |-> "Err", status |-> StatusBoom]
    /\ input[2] = [tag |-> "Err", status |-> StatusDown]
    /\ Consumed = 2

\* C5. poll_trailers returns a trailer record only after poll_data has
\* returned None.
C5_TrailersOnlyAfterDataEnded ==
    ReturnedTrailers => ended

\* C6. No failure is swallowed: every failure that has occurred in the
\* stream is the pending status or has been carried by a trailer record.
C6_NoFailureSwallowed ==
    failures = Len(sent) + (IF error # None THEN 1 ELSE 0)

\* C7. Every frame returned is well formed (5-byte header, big-endian length
\* equal to the number of bytes after the header, every byte written), and
\* between pulls the working buffer holds nothing of an earlier frame.
C7_FramesWellFormed ==
    /\ \A i \in 1..Len(frames) : WellFormed(frames[i])
    /\ buf = <<>>

\* A third frame, of a two-byte message, after two frames were split off.
C7_Witness ==
    /\ Len(frames) = 3
    /\ ReturnedFrame
    /\ compression_encoding = None
    /\ LastItem.msg = <<98, 98>>
    /\ LastItem.fault = "none"
    /\ LengthField(frames[3]) = 2

\* C8. Order preservation: over an input without failures the frames
\* returned are, in order, the frames of the items taken, one per item, and
\* when the data has ended there is one frame per input message.
C8_OrderPreserved ==
    FirstFailure(input, compression_encoding) = 0 =>
        /\ Len(frames) = Consumed
        /\ \A i \in 1..Len(frames) :
               frames[i] = ExpectedFrame(input[i], compression_encoding)
        /\ ended => Len(frames) = Len(input)

\* Three messages, not all the same, all pulled and the data ended.
C8_Witness ==
    /\ FirstFailure(input, compression_encoding) = 0
    /\ Len(input) = 3
    /\ input[1].msg # input[2].msg
    /\ ended
    /\ Len(frames) = 3

\* C9. The flag byte of a returned frame is 1 exactly when a compression
\* encoding was selected; the payload of a message the capabilities succeed
\* on is the Compressor's output on the Encoder's output for it alone when
\* compression is selected, and the Encoder's output when it is not.
C9_CompressionFlagAndPayload ==
    ReturnedFrame =>
        /\ ret.val[1][1] = (IF compression_encoding = None THEN 0 ELSE 1)
        /\ ~CapabilityFailed(LastItem, compression_encoding) =>
               PayloadOf(ret.val[1]) =
                   ExpectedPayload(LastItem, compression_encoding)

\* A compressed frame of a message that follows one the Compressor failed on.
C9_Witness ==
    /\ ReturnedFrame
    /\ compression_encoding # None
    /\ Consumed >= 2
    /\ IsOk(input[Consumed - 1])
    /\ input[Consumed - 1].fault = "compress"
    /\ LastItem.fault = "none"
    /\ ret.val[1][1] = 1

\* C10. Scenario B: the first pull returns the frame of "x", the second
\* returns None, the trailers pulled after it carry internal/"boom" once,
\* and no pull returns data again.
C10_ScenarioB ==
    input = ScenarioB =>
        /\ Len(frames) <= 1
        /\ Consumed >= 1 =>
               frames = << ExpectedFrame(ScenarioB[1], compression_encoding) >>
        /\ (ret.op = "poll_data" /\ Consumed = 1) =>
               ret.val = Some(ExpectedFrame(ScenarioB[1], compression_encoding))
        /\ (ret.op = "poll_data" /\ Consumed = 2) => ret.val = None
        /\ Consumed = 2 =>
               \/ error = Some(StatusBoom) /\ ~is_end_stream /\ sent = <<>>
               \/ error = None /\ is_end_stream /\ sent = << StatusBoom >>
        /\ (ret.op = "poll_trailers" /\ Consumed = 2) =>
               \/ ret.val = Some([content_type |-> "application/grpc",
                                  grpc_status |-> 13,
                                  grpc_message |-> "boom"])
               \/ ret.val = None /\ sent = << StatusBoom >>

\* Scenario B run to the end: trailers carried boom, a later pull got None.
C10_Witness ==
    /\ input = ScenarioB
    /\ Len(frames) = 1
    /\ is_end_stream
    /\ sent = << StatusBoom >>
    /\ done
    /\ ret.op = "poll_data"
    /\ ret.val = None

---------------------------------------------------------------------------
\* C11. is_end_stream is monotone: false on a new body of either
\* constructor, and no call on the body takes it from true to false.
C11_EndStreamMonotone ==
    /\ ~is_end_stream
    /\ [][is_end_stream => is_end_stream']_vars

\* The flag set, seen set by a query, after trailers carried a failure.
C11_Witness ==
    /\ is_end_stream
    /\ ret.op = "is_end_stream"
    /\ ret.val = Some(TRUE)
    /\ taken = 1
    /\ pulls >= 2

\* C12. poll_data leaves is_end_stream as it was whatever it returns; the
\* flag changes only in a poll_trailers call.
C12_PollDataKeepsFlag ==
    [][ /\ pulls' # pulls => is_end_stream' = is_end_stream
        /\ is_end_stream' # is_end_stream => ret'.op = "poll_trailers"
      ]_vars

\* A body that returned a frame, then a failure, then exhaustion, the flag
\* still false.
C12_Witness ==
    /\ ret.op = "poll_data"
    /\ ret.val = None
    /\ done
    /\ Len(frames) >= 1
    /\ error # None
    /\ ~is_end_stream

\* C13. The pending Status slot is set at most once and consumed at most
\* once over the lifetime of a body.
C13_PendingSetOnceTakenOnce ==
    stored <= 1 /\ taken <= 1

\* C14. With is_end_stream true, poll_trailers returns no trailers and
\* changes neither is_end_stream nor the pending slot.
C14_EndedTrailersChangeNothing ==
    [][ (is_end_stream /\ ret'.op = "poll_trailers") =>
            /\ ret'.val = None
            /\ is_end_stream'
            /\ error' = error
      ]_vars

\* No trailers from an ended body in whose slot a later pull left a status.
C14_Witness ==
    /\ is_end_stream
    /\ ret.op = "poll_trailers"
    /\ ret.val = None
    /\ error # None
    /\ stored = 2

\* C15. Production is pull-driven: until the stream has ended every
\* poll_data has taken exactly one input item, so the items taken and the
\* Encoder calls made never exceed the pulls made, and the Encoder is
\* called once for each message taken and for nothing else.
C15_PullDriven ==
    /\ Consumed <= pulls
    /\ encodes <= pulls
    /\ ~done => Consumed = pulls
    /\ encodes = Cardinality({i \in 1..Consumed : IsOk(input[i])})

\* Three pulls, three items taken, one of them an upstream failure.
C15_Witness ==
    /\ pulls = 3
    /\ Consumed = 3
    /\ encodes = 2
    /\ ~done

\* C16. A pull that takes an upstream failure stores exactly that status,
\* returns no data, calls no Encoder and leaves both buffers as they were.
C16_UpstreamFailureUnmodified ==
    [][ (pulls' # pulls /\ Consumed' = Consumed + 1 /\ ~IsOk(input[Consumed'])) =>
            /\ error' = << input[Consumed'].status >>
            /\ ret'.val = None
            /\ encodes' = encodes
            /\ frames' = frames
            /\ buf' = buf
            /\ uncompression_buf' = uncompression_buf
      ]_vars

\* An upstream failure taken after a message the Compressor failed on.
C16_Witness ==
    /\ ret.op = "poll_data"
    /\ Consumed >= 2
    /\ ~IsOk(LastItem)
    /\ LastItem.status = StatusDown
    /\ error = << StatusDown >>
    /\ uncompression_buf # <<>>

\* C17. Role independence: a body of the other role over the same frame
\* sequence, given the same calls, returns the same results and holds the
\* same is_end_stream and pending Status; neither role ever changes.
C17_RoleIndependent ==
    /\ [](/\ twin.role # role
          /\ twin.ret = ret
          /\ twin.is_end_stream = is_end_stream
          /\ twin.error = error)
    /\ [][role' = role /\ twin'.role = twin.role]_vars

\* Both bodies ended by trailers that carried a failure.
C17_Witness ==
    /\ twin.is_end_stream
    /\ is_end_stream
    /\ twin.role = "Client"
    /\ role = "Server"
    /\ ret.op = "poll_trailers"
    /\ ret.val = None
    /\ twin.ret = ret

\* C18. Termination: Len(input) + 1 pulls are enough to get None, and once
\* the input is exhausted every pull returns None, returns no frame and
\* stores no failure.
C18_Termination ==
    /\ [](pulls >= Len(input) + 1 => ended)
    /\ [][ (resp_body = <<>> /\ pulls' # pulls) =>
               /\ ret'.val = None
               /\ frames' = frames
               /\ error' = error
               /\ stored' = stored
         ]_vars

\* Two pulls past the end of a three-message input.
C18_Witness ==
    /\ Len(input) = 3
    /\ NoErr(input)
    /\ pulls = 5
    /\ Len(frames) = 3
    /\ ret.op = "poll_data"
    /\ ret.val = None

\* C19. is_end_stream is true only after a poll_data stored a failure and a
\* poll_trailers took it; over an input without upstream failures (every
\* body of encode_client) it stays false and every poll_trailers returns ok
\* trailers.
C19_EndStreamOnlyAfterFailure ==
    /\ is_end_stream => (stored >= 1 /\ taken >= 1)
    /\ role = "Client" => NoErr(input)
    /\ NoErr(input) =>
           /\ ~is_end_stream
           /\ ret.op = "poll_trailers" =>
                  ret.val = Some([content_type |-> "application/grpc",
                                  grpc_status |-> 0,
                                  grpc_message |-> ""])

\* A client body past its data, trailers returned, the flag still false.
C19_Witness ==
    /\ role = "Client"
    /\ done
    /\ Len(frames) = 2
    /\ ReturnedTrailers
    /\ ~is_end_stream

---------------------------------------------------------------------------
\* The JSON-RPC server future, dubbo-rust-protocol/src/jsonrpc/server.rs.

\* What incoming.poll_accept gives: a connection, an accept error, or
\* Pending; the end of the sequence is the accept source returning None.
AcceptResults ==
    [tag : {"Conn"}, addr : {1, 2}]
        \cup [tag : {"Err"}, e : {"io: connection reset"}]
        \cup {[tag |-> "Pending"]}

\* No streaming body is part of the run of the server.
NoBody ==
    /\ resp_body = <<>>
    /\ buf = <<>>
    /\ uncompression_buf = <<>>
    /\ done = FALSE
    /\ compression_encoding = None
    /\ role = "Server"
    /\ is_end_stream = FALSE
    /\ error = None
    /\ ret = [op |-> "new", val |-> None]
    /\ input = <<>>
    /\ frames = <<>>
    /\ ended = FALSE
    /\ lastFailed = None
    /\ sent = <<>>
    /\ failures = 0
    /\ pulls = 0
    /\ encodes = 0
    /\ stored = 0
    /\ taken = 0
    /\ twin = [role |-> "Client", resp_body |-> <<>>, buf |-> <<>>,
               uncompression_buf |-> <<>>, done |-> FALSE,
               is_end_stream |-> FALSE, error |-> None,
               ret |-> [op |-> "new", val |-> None]]

bodyAllVars ==
    << encodeVars, bodyVars, constVars, histVars, ret, twin >>

\* JsonRpcServer::new over a listener that will give the accept results a.
InitServer ==
    \E a \in SeqsUpTo(AcceptResults, MaxAccepts) :
        /\ incoming = a
        /\ accepts = a
        /\ spawned = <<>>
        /\ output = None
        /\ NoBody

\* How many connections the accept source gives before anything else.
RECURSIVE ConnsAhead(_)
ConnsAhead(s) ==
    IF s # <<>> /\ Head(s).tag = "Conn" THEN 1 + ConnsAhead(Tail(s)) ELSE 0

\* OneConnection { connection }: the task spawned for an accepted stream.
OneConnection(stream) == [connection |-> stream.addr]

\* Some(Ok(stream)) arm, for each of the n connections at the head of s:
\* the tasks spawned, in order.
SpawnAll(s, n) == [i \in 1..n |-> OneConnection(s[i])]

\* An end of the accept source taken for a normal end.
ExhaustedOutputOk == [tag |-> "Ok"]

\* None => Poll::Ready(Err("option none".into()))
ExhaustedOutput == [tag |-> "Err", e |-> "option none"]

\* Some(Err(e)) => Poll::Ready(Err(e.into()))
AcceptErrorOutput(r) == [tag |-> "Err", e |-> r.e]

\* One call of poll: the loop spawns a task for every connection accepted,
\* then poll_next is not ready and ready! returns Pending.
ServerPollPending ==
    /\ output = None
    /\ LET n == ConnsAhead(incoming)
       IN  /\ n < Len(incoming)
           /\ incoming[n + 1].tag = "Pending"
           /\ spawned' = spawned \o SpawnAll(incoming, n)
           /\ incoming' = SubSeq(incoming, n + 2, Len(incoming))
    /\ UNCHANGED << output, accepts, bodyAllVars >>

\* One call of poll that ends in the Some(Err(e)) arm.
ServerPollErr ==
    /\ output = None
    /\ LET n == ConnsAhead(incoming)
       IN  /\ n < Len(incoming)
           /\ incoming[n + 1].tag = "Err"
           /\ spawned' = spawned \o SpawnAll(incoming, n)
           /\ incoming' = SubSeq(incoming, n + 2, Len(incoming))
           /\ output' = Some(AcceptErrorOutput(incoming[n + 1]))
    /\ UNCHANGED << accepts, bodyAllVars >>

\* One call of poll that ends in the None arm.
ServerPollNone ==
    /\ output = None
    /\ LET n == ConnsAhead(incoming)
       IN  /\ n = Len(incoming)
           /\ spawned' = spawned \o SpawnAll(incoming, n)
           /\ incoming' = <<>>
           /\ output' = Some(ExhaustedOutput)
    /\ UNCHANGED << accepts, bodyAllVars >>

\* impl Future for JsonRpcServer: poll
NextServer == ServerPollPending \/ ServerPollErr \/ ServerPollNone

SpecServer == InitServer /\ [][NextServer]_vars

\* The accept results the server has taken so far.
Accepted == SubSeq(accepts, 1, Len(accepts) - Len(incoming))

IsConn(r) == r.tag = "Conn"

\* The connections among the accept results taken, one task each.
TasksDue ==
    LET conns == SelectSeq(Accepted, IsConn)
    IN  [i \in 1..Len(conns) |-> [connection |-> conns[i].addr]]

\* C20. The server future never completes with Ok: it has spawned exactly
\* one task per connection accepted, in order; it stays incomplete while it
\* has accepted only connections; an accept error completes it with that
\* error, and the end of the accept source completes it with an error.
C20_ServerNeverCompletesOk ==
    /\ spawned = TasksDue
    /\ output # None => output[1].tag = "Err"
    /\ (\A i \in 1..Len(Accepted) : Accepted[i].tag # "Err") =>
           \/ output = None
           \/ incoming = <<>> /\ output = << [tag |-> "Err", e |-> "option none"] >>
    /\ (Accepted # <<>> /\ Accepted[Len(Accepted)].tag = "Err") =>
           output = << [tag |-> "Err", e |-> Accepted[Len(Accepted)].e] >>

\* Two connections served, then the accept source ended.
C20_Witness ==
    /\ Len(spawned) = 2
    /\ incoming = <<>>
    /\ output = << [tag |-> "Err", e |-> "option none"] >>
    /\ \A i \in 1..Len(accepts) : accepts[i].tag # "Err"

====
